---------------------------- MODULE Spec2Model ----------------------------
(***************************************************************************)
(* A model of the real-estate dashboard's analytics engine (DataProcessor: *)
(* CSV parsing, the time-series store, the returns and beta engine and the *)
(* asynchronous load cycle) and of the parts of the dashboard that consume *)
(* it.                                                                     *)
(*                                                                         *)
(* JavaScript values are records [k, m, e, s]: k is the kind ("num",       *)
(* "nan", "inf", "undef", "null", "text"); a number is m * 2^e with m a    *)
(* signed significand of exactly Precision bits (or m = 0, e = 0), the     *)
(* binary floating point format of the language with the significand cut   *)
(* from 53 bits to Precision bits; every arithmetic operation rounds its   *)
(* exact result to nearest, ties to even, as IEEE 754 does.  The exponent  *)
(* is unbounded: overflow to Infinity and subnormals are not modelled      *)
(* (Infinity arises from a division by zero only).  A text is s.           *)
(***************************************************************************)
EXTENDS Integers, Sequences, FiniteSets, TLC

(***************************************************************************)
(* Bounds of the model.                                                    *)
(***************************************************************************)
\* Bits of the significand (53 in the language's doubles).
Precision == 7
\* The months a series may hold are 1..MaxDates (scaled YYYYMM values).
MaxDates == 4
\* The beta windows, scaled from the 12, 36 and 60 months of the source so
\* that a window fits a series of MaxDates months.
Win1y == 2
Win3y == 3
Win5y == 4
\* The distance in months of the year-over-year comparison, scaled from the
\* 12 of the source (index 12 of a series of at least 13 observations).
YearLag == 3

(***************************************************************************)
(* JavaScript values and floating point arithmetic.                        *)
(***************************************************************************)
Undefined == [k |-> "undef", m |-> 0, e |-> 0, s |-> ""]
Null == [k |-> "null", m |-> 0, e |-> 0, s |-> ""]
NaN == [k |-> "nan", m |-> 0, e |-> 0, s |-> ""]
Zero == [k |-> "num", m |-> 0, e |-> 0, s |-> ""]
Text(str) == [k |-> "text", m |-> 0, e |-> 0, s |-> str]
Inf(sign) == [k |-> "inf", m |-> sign, e |-> 0, s |-> ""]

Abs(n) == IF n < 0 THEN -n ELSE n
Sgn(n) == IF n < 0 THEN -1 ELSE IF n > 0 THEN 1 ELSE 0

RECURSIVE BitLen(_)
BitLen(n) == IF n = 0 THEN 0 ELSE 1 + BitLen(n \div 2)

\* The number nearest to n * 2^e among those with a Precision-bit
\* significand, ties to the even significand.
Round(n, e) ==
    IF n = 0 THEN Zero
    ELSE LET a == Abs(n)
             len == BitLen(a)
         IN  IF len <= Precision
             THEN [k |-> "num", m |-> Sgn(n) * a * 2^(Precision - len),
                   e |-> e - (Precision - len), s |-> ""]
             ELSE LET sh == len - Precision
                      q == a \div 2^sh
                      r == a % 2^sh
                      half == 2^(sh - 1)
                      up == r > half \/ (r = half /\ q % 2 = 1)
                      q1 == IF up THEN q + 1 ELSE q
                  IN  IF q1 = 2^Precision
                      THEN [k |-> "num", m |-> Sgn(n) * 2^(Precision - 1),
                            e |-> e + sh + 1, s |-> ""]
                      ELSE [k |-> "num", m |-> Sgn(n) * q1, e |-> e + sh, s |-> ""]

FromInt(n) == Round(n, 0)

IsNum(v) == v.k = "num"

\* ToNumber: the operand of an arithmetic operator as a number.  A text that
\* parseCSV left as text is not numeric (isNumeric was false) and gives NaN;
\* the empty text, undefined and null give what the language gives.
ToNumber(v) ==
    CASE v.k = "num" -> v
      [] v.k = "inf" -> v
      [] v.k = "null" -> Zero
      [] v.k = "text" /\ v.s = "" -> Zero
      [] OTHER -> NaN

\* x + y on numbers.
FAddNum(x, y) ==
    IF x.m = 0 THEN y
    ELSE IF y.m = 0 THEN x
    ELSE LET hi == IF x.e >= y.e THEN x ELSE y
             lo == IF x.e >= y.e THEN y ELSE x
             d == hi.e - lo.e
         IN  IF d > Precision + 2 THEN hi
             ELSE Round(hi.m * 2^d + lo.m, lo.e)

FNeg(x) ==
    CASE x.k = "num" -> [x EXCEPT !.m = -x.m]
      [] x.k = "inf" -> Inf(-x.m)
      [] OTHER -> x

FAdd(a, b) ==
    LET x == ToNumber(a)
        y == ToNumber(b)
    IN  CASE x.k = "nan" \/ y.k = "nan" -> NaN
          [] x.k = "inf" /\ y.k = "inf" -> IF x.m = y.m THEN x ELSE NaN
          [] x.k = "inf" -> x
          [] y.k = "inf" -> y
          [] OTHER -> FAddNum(x, y)

FSub(a, b) == FAdd(a, FNeg(ToNumber(b)))

FMul(a, b) ==
    LET x == ToNumber(a)
        y == ToNumber(b)
    IN  CASE x.k = "nan" \/ y.k = "nan" -> NaN
          [] x.k = "inf" \/ y.k = "inf" ->
                IF x.m = 0 \/ y.m = 0 THEN NaN ELSE Inf(Sgn(x.m) * Sgn(y.m))
          [] OTHER -> Round(x.m * y.m, x.e + y.e)

FDiv(a, b) ==
    LET x == ToNumber(a)
        y == ToNumber(b)
    IN  CASE x.k = "nan" \/ y.k = "nan" -> NaN
          [] x.k = "inf" /\ y.k = "inf" -> NaN
          [] x.k = "inf" -> Inf(x.m * (IF y.m < 0 THEN -1 ELSE 1))
          [] y.k = "inf" -> Zero
          [] y.m = 0 -> IF x.m = 0 THEN NaN ELSE Inf(Sgn(x.m))
          [] OTHER ->
                LET num == Abs(x.m) * 2^(Precision + 2)
                    q == num \div Abs(y.m)
                    sticky == IF num % Abs(y.m) = 0 THEN 0 ELSE 1
                IN  Round(Sgn(x.m) * Sgn(y.m) * (2 * q + sticky),
                          x.e - y.e - (Precision + 2) - 1)

\* The truthiness of a value (what && and || test).
Truthy(v) ==
    CASE v.k = "num" -> v.m # 0
      [] v.k = "inf" -> TRUE
      [] v.k = "text" -> v.s # ""
      [] v.k = "function" -> TRUE
      [] v.k = "object" -> TRUE
      [] OTHER -> FALSE

\* a || b
OrElse(a, b) == IF Truthy(a) THEN a ELSE b

\* parseInt of a number: its integer part (the digits before the point).
ParseInt(v) ==
    IF v.k # "num" \/ v.m = 0 THEN 0
    ELSE IF v.e >= 0 THEN v.m * 2^v.e
    ELSE Sgn(v.m) * (Abs(v.m) \div 2^(-v.e))


(***************************************************************************)
(* Rows and series.  A row is a function from the column names of its file *)
(* to values; a series is a sequence of rows (index 1 is the source's      *)
(* index 0).                                                               *)
(***************************************************************************)
\* row[field], undefined for a column the file does not have; row?.[field]
\* of an undefined row (NoRow) is undefined too.
NoRow == << >>
Get(row, field) == IF field \in DOMAIN row THEN row[field] ELSE Undefined

DateOf(row) == ParseInt(Get(row, "month_date_yyyymm"))

\* The metrics the engine computes betas for.
Metrics == {"active_listing_count", "new_listing_count",
            "pending_listing_count", "median_listing_price"}

\* Array.prototype.sort with the comparator parseInt(b.date) - parseInt(a.date):
\* a stable sort by date, newest first.
RECURSIVE InsertByDate(_, _)
InsertByDate(sorted, row) ==
    IF sorted = << >> THEN <<row>>
    ELSE IF DateOf(sorted[Len(sorted)]) >= DateOf(row) THEN Append(sorted, row)
    ELSE Append(InsertByDate(SubSeq(sorted, 1, Len(sorted) - 1), row),
                sorted[Len(sorted)])

RECURSIVE SortByDateDesc(_)
SortByDateDesc(rows) ==
    IF rows = << >> THEN << >>
    ELSE InsertByDate(SortByDateDesc(SubSeq(rows, 1, Len(rows) - 1)),
                      rows[Len(rows)])

(***************************************************************************)
(* The returns and beta engine.                                            *)
(***************************************************************************)
\* The parsed dates of a set of raw dates, newest first.
RECURSIVE DatesDesc(_)
DatesDesc(raw) ==
    IF raw = {} THEN << >>
    ELSE LET x == CHOOSE x \in raw : \A y \in raw : ParseInt(y) <= ParseInt(x)
         IN  <<ParseInt(x)>> \o DatesDesc(raw \ {x})

RawDates(series) == {Get(series[i], "month_date_yyyymm") : i \in 1..Len(series)}

getCommonDates(stateSeries, nationalSeries) ==
    DatesDesc(RawDates(stateSeries) \cap RawDates(nationalSeries))

getCommonDatesMetro(metroSeries, nationalSeries) ==
    DatesDesc(RawDates(metroSeries) \cap RawDates(nationalSeries))

\* The dataMap getReturns builds, row by row: parsed date -> row, a later
\* row of the same date replacing an earlier one.
RECURSIVE DataMapFrom(_, _)
DataMapFrom(timeSeries, n) ==
    IF n = 0 THEN << >>
    ELSE (DateOf(timeSeries[n]) :> timeSeries[n]) @@ DataMapFrom(timeSeries, n - 1)

DataMapOf(timeSeries) == DataMapFrom(timeSeries, Len(timeSeries))

\* dataMap[date]?.[metric]
Lookup(dataMap, date, metric) ==
    IF date \in DOMAIN dataMap THEN Get(dataMap[date], metric) ELSE Undefined

\* previousValue !== 0
NotZero(v) == ~(v.k = "num" /\ v.m = 0)

\* Whether getReturns pushes a return for the pair (dates[i], dates[i+1]).
RetainedPair(dataMap, metric, dates, i) ==
    LET currentValue == Lookup(dataMap, dates[i], metric)
        previousValue == Lookup(dataMap, dates[i + 1], metric)
    IN  Truthy(currentValue) /\ Truthy(previousValue) /\ NotZero(previousValue)

PairReturn(dataMap, metric, dates, i) ==
    LET currentValue == Lookup(dataMap, dates[i], metric)
        previousValue == Lookup(dataMap, dates[i + 1], metric)
    IN  FDiv(FSub(currentValue, previousValue), previousValue)

RECURSIVE ReturnsFrom(_, _, _, _)
ReturnsFrom(dataMap, metric, dates, i) ==
    IF i > Len(dates) - 1 THEN << >>
    ELSE (IF RetainedPair(dataMap, metric, dates, i)
          THEN <<PairReturn(dataMap, metric, dates, i)>>
          ELSE << >>) \o ReturnsFrom(dataMap, metric, dates, i + 1)

getReturns(timeSeries, metric, dates) ==
    ReturnsFrom(DataMapOf(timeSeries), metric, dates, 1)

getMetroReturns(timeSeries, metric, dates) ==
    ReturnsFrom(DataMapOf(timeSeries), metric, dates, 1)

\* x.reduce((sum, val) => sum + val, 0)
RECURSIVE SumTo(_, _)
SumTo(x, n) == IF n = 0 THEN Zero ELSE FAdd(SumTo(x, n - 1), x[n])

RECURSIVE CovTo(_, _, _, _, _)
CovTo(x, y, meanX, meanY, n) ==
    IF n = 0 THEN Zero
    ELSE FAdd(CovTo(x, y, meanX, meanY, n - 1),
              FMul(FSub(x[n], meanX), FSub(y[n], meanY)))

calculateCovariance(x, y) ==
    LET n == Len(x)
    IN  IF n # Len(y) \/ n = 0 THEN Zero
        ELSE LET meanX == FDiv(SumTo(x, n), FromInt(n))
                 meanY == FDiv(SumTo(y, n), FromInt(n))
             IN  FDiv(CovTo(x, y, meanX, meanY, n), FromInt(n - 1))

RECURSIVE VarTo(_, _, _)
VarTo(x, mean, n) ==
    IF n = 0 THEN Zero
    ELSE LET d == FSub(x[n], mean)
         IN  FAdd(VarTo(x, mean, n - 1), FMul(d, d))

calculateVariance(x) ==
    LET n == Len(x)
    IN  IF n = 0 THEN Zero
        ELSE LET mean == FDiv(SumTo(x, n), FromInt(n))
             IN  FDiv(VarTo(x, mean, n), FromInt(n - 1))

\* commonDates.slice(0, months)
Slice(seq, n) == SubSeq(seq, 1, IF n < Len(seq) THEN n ELSE Len(seq))

\* The beta of two return series (the tail of calculateBeta).
BetaOf(localReturns, nationalReturns) ==
    IF Len(localReturns) # Len(nationalReturns) \/ Len(localReturns) < 2 THEN Null
    ELSE LET covariance == calculateCovariance(localReturns, nationalReturns)
             nationalVariance == calculateVariance(nationalReturns)
         IN  IF nationalVariance = Zero THEN Null
             ELSE FDiv(covariance, nationalVariance)

\* calculateBeta without its test of the number of common dates: the beta of
\* whatever dates the two series share.
calculateBeta_AnyHistory(stateSeries, nationalSeries, metric, months, commonDates) ==
    LET relevantDates == Slice(commonDates, months)
    IN  BetaOf(getReturns(stateSeries, metric, relevantDates),
               getReturns(nationalSeries, metric, relevantDates))

calculateBeta(stateSeries, nationalSeries, metric, months, commonDates) ==
    IF Len(commonDates) < months THEN Null
    ELSE LET relevantDates == Slice(commonDates, months)
         IN  BetaOf(getReturns(stateSeries, metric, relevantDates),
                    getReturns(nationalSeries, metric, relevantDates))

calculateMetroBeta(metroSeries, nationalSeries, metric, months, commonDates) ==
    IF Len(commonDates) < months THEN Null
    ELSE LET relevantDates == Slice(commonDates, months)
         IN  BetaOf(getMetroReturns(metroSeries, metric, relevantDates),
                    getReturns(nationalSeries, metric, relevantDates))

calculateStateBetas(stateSeries, nationalSeries, state) ==
    LET commonDates == getCommonDates(stateSeries, nationalSeries)
    IN  [name |-> state,
         latest_data |-> stateSeries[1],
         betas |-> [metric \in Metrics |->
            [beta_5y |-> calculateBeta(stateSeries, nationalSeries, metric, Win5y, commonDates),
             beta_3y |-> calculateBeta(stateSeries, nationalSeries, metric, Win3y, commonDates),
             beta_1y |-> calculateBeta(stateSeries, nationalSeries, metric, Win1y, commonDates)]]]

calculateMetroAreaBetas(metroSeries, nationalSeries, metro) ==
    LET commonDates == getCommonDatesMetro(metroSeries, nationalSeries)
    IN  [name |-> metro,
         latest_data |-> metroSeries[1],
         betas |-> [metric \in Metrics |->
            [beta_5y |-> calculateMetroBeta(metroSeries, nationalSeries, metric, Win5y, commonDates),
             beta_3y |-> calculateMetroBeta(metroSeries, nationalSeries, metric, Win3y, commonDates),
             beta_1y |-> calculateMetroBeta(metroSeries, nationalSeries, metric, Win1y, commonDates)]]]


(***************************************************************************)
(* The change calculator and the output records.                           *)
(***************************************************************************)
One == FromInt(1)

\* calculateChanges reading the array as it is given, without sorting it.
calculateChanges_AsGiven(timeSeries, metric) ==
    IF Len(timeSeries) < 2 THEN [mom |-> Zero, yoy |-> Zero]
    ELSE LET currentValue == Get(timeSeries[1], metric)
             previousMonthValue == Get(timeSeries[2], metric)
             yearAgoValue == Get(timeSeries[YearLag + 1], metric)
         IN  [mom |-> IF Truthy(currentValue) /\ Truthy(previousMonthValue)
                         /\ NotZero(previousMonthValue)
                      THEN FSub(FDiv(currentValue, previousMonthValue), One)
                      ELSE Zero,
              yoy |-> IF Len(timeSeries) >= YearLag + 1 /\ Truthy(currentValue)
                         /\ Truthy(yearAgoValue) /\ NotZero(yearAgoValue)
                      THEN FSub(FDiv(currentValue, yearAgoValue), One)
                      ELSE Zero]

calculateChanges(timeSeries, metric) ==
    IF Len(timeSeries) < 2 THEN [mom |-> Zero, yoy |-> Zero]
    ELSE LET sortedData == SortByDateDesc(timeSeries)
             currentValue == Get(sortedData[1], metric)
             previousMonthValue == Get(sortedData[2], metric)
             yearAgoValue == Get(sortedData[YearLag + 1], metric)
         IN  [mom |-> IF Truthy(currentValue) /\ Truthy(previousMonthValue)
                         /\ NotZero(previousMonthValue)
                      THEN FSub(FDiv(currentValue, previousMonthValue), One)
                      ELSE Zero,
              yoy |-> IF Len(sortedData) >= YearLag + 1 /\ Truthy(currentValue)
                         /\ Truthy(yearAgoValue) /\ NotZero(yearAgoValue)
                      THEN FSub(FDiv(currentValue, yearAgoValue), One)
                      ELSE Zero]

\* calculateChanges sorting the array it is given in place, oldest first.
RECURSIVE SeriesAfterChanges_InPlace(_)
SeriesAfterChanges_InPlace(timeSeries) ==
    IF timeSeries = << >> THEN << >>
    ELSE LET sorted == SortByDateDesc(timeSeries)
         IN  Append(SeriesAfterChanges_InPlace(SubSeq(sorted, 1, Len(sorted) - 1)), sorted[1])

\* The array calculateChanges was given, after the call: sortedData is a
\* sorted copy ([...timeSeries]), the array itself is left as it was.
SeriesAfterChanges(timeSeries) == timeSeries

\* The name of a metric's precomputed change columns.
MM(metric) ==
    CASE metric = "active_listing_count" -> "active_listing_count_mm"
      [] metric = "new_listing_count" -> "new_listing_count_mm"
      [] metric = "pending_listing_count" -> "pending_listing_count_mm"
      [] metric = "median_listing_price" -> "median_listing_price_mm"

YY(metric) ==
    CASE metric = "active_listing_count" -> "active_listing_count_yy"
      [] metric = "new_listing_count" -> "new_listing_count_yy"
      [] metric = "pending_listing_count" -> "pending_listing_count_yy"
      [] metric = "median_listing_price" -> "median_listing_price_yy"

\* The record getFormattedStateData and getFormattedMetroData build for one
\* geography; field x_beta_5y of the source is beta_5y[x] here, x_mm is
\* mm[x], x_yy is yy[x] and x is value[x].
FormattedRecord(info, timeSeries) ==
    LET latest == info.latest_data
        medianChanges == calculateChanges(timeSeries, "median_listing_price")
    IN  [value |-> [metric \in Metrics |-> OrElse(Get(latest, metric), Zero)],
         mm |-> [metric \in Metrics |->
                    IF metric = "median_listing_price"
                    THEN OrElse(Get(latest, MM(metric)), OrElse(medianChanges.mom, Zero))
                    ELSE OrElse(Get(latest, MM(metric)), Zero)],
         yy |-> [metric \in Metrics |->
                    IF metric = "median_listing_price"
                    THEN OrElse(Get(latest, YY(metric)), OrElse(medianChanges.yoy, Zero))
                    ELSE OrElse(Get(latest, YY(metric)), Zero)],
         beta_5y |-> [metric \in Metrics |-> OrElse(info.betas[metric].beta_5y, Zero)],
         beta_3y |-> [metric \in Metrics |-> OrElse(info.betas[metric].beta_3y, Zero)],
         beta_1y |-> [metric \in Metrics |-> OrElse(info.betas[metric].beta_1y, Zero)],
         last_updated |-> Get(latest, "month_date_yyyymm")]

FormatState(processed, store) ==
    [state \in DOMAIN processed |->
        FormattedRecord(processed[state], store[state])
        @@ [id |-> OrElse(Get(processed[state].latest_data, "state_id"), Text(state))]]

FormatMetro(processed, store) ==
    [metro \in DOMAIN processed |->
        FormattedRecord(processed[metro], store[metro])
        @@ [id |-> OrElse(Get(processed[metro].latest_data, "cbsa_title"), Text(metro))]]

\* formatBeta of the dashboard: the text shown for a beta.
formatBeta(value) == IF value.k = "num" \/ value.k = "inf" THEN "number" ELSE "N/A"


(***************************************************************************)
(* The tabular parser.  A text is a sequence of characters; a word of      *)
(* letters, which the parser treats as it treats each of its letters, may  *)
(* stand as one element.                                                   *)
(***************************************************************************)
Quote == "\""
Comma == ","
Newline == "\n"
Space == " "
Whitespace == {Space, Newline}
Digits == {"0", "1", "2", "3", "4", "5", "6", "7", "8", "9"}

\* String.prototype.trim
RECURSIVE Trim(_)
Trim(text) ==
    IF text = << >> THEN << >>
    ELSE IF text[1] \in Whitespace THEN Trim(Tail(text))
    ELSE IF text[Len(text)] \in Whitespace THEN Trim(SubSeq(text, 1, Len(text) - 1))
    ELSE text

\* String.prototype.split(separator): the pieces between the separators.
RECURSIVE SplitFrom(_, _, _, _)
SplitFrom(text, separator, i, current) ==
    IF i > Len(text) THEN <<current>>
    ELSE IF text[i] = separator
         THEN <<current>> \o SplitFrom(text, separator, i + 1, << >>)
         ELSE SplitFrom(text, separator, i + 1, Append(current, text[i]))

Split(text, separator) == SplitFrom(text, separator, 1, << >>)

\* The characters of a text as one string.
RECURSIVE Join(_)
Join(text) == IF text = << >> THEN "" ELSE text[1] \o Join(Tail(text))

\* The loop of parseCSVLine from character i, with the values pushed so far
\* left out: the values the rest of the line yields.
RECURSIVE LineFrom(_, _, _, _)
LineFrom(line, i, current, inQuotes) ==
    IF i > Len(line) THEN <<Trim(current)>>
    ELSE IF line[i] = Quote THEN LineFrom(line, i + 1, current, ~inQuotes)
    ELSE IF line[i] = Comma /\ ~inQuotes
         THEN <<Trim(current)>> \o LineFrom(line, i + 1, << >>, inQuotes)
         ELSE LineFrom(line, i + 1, Append(current, line[i]), inQuotes)

parseCSVLine(line) == LineFrom(line, 1, << >>, FALSE)

\* isNumeric: of the texts of the model (words, digits, commas, spaces) the
\* numeric ones are the runs of digits.
isNumeric(value) == value # << >> /\ \A i \in 1..Len(value) : value[i] \in Digits

DigitValue(c) ==
    CASE c = "0" -> 0 [] c = "1" -> 1 [] c = "2" -> 2 [] c = "3" -> 3 [] c = "4" -> 4
      [] c = "5" -> 5 [] c = "6" -> 6 [] c = "7" -> 7 [] c = "8" -> 8 [] c = "9" -> 9

RECURSIVE DecimalValue(_)
DecimalValue(value) ==
    IF value = << >> THEN 0
    ELSE 10 * DecimalValue(SubSeq(value, 1, Len(value) - 1)) + DigitValue(value[Len(value)])

\* parseFloat of a numeric value.
parseFloat(value) == FromInt(DecimalValue(value))

\* The value parseCSV stores for a field.
Convert(value) == IF isNumeric(value) THEN parseFloat(value) ELSE Text(Join(value))

\* The row of a line: header -> converted value, a later column of the same
\* name replacing an earlier one.
RECURSIVE RowFrom(_, _, _)
RowFrom(headers, values, n) ==
    IF n = 0 THEN << >>
    ELSE (Join(headers[n]) :> Convert(values[n])) @@ RowFrom(headers, values, n - 1)

LinesOf(csvText) == Split(Trim(csvText), Newline)

HeadersOf(csvText) == Split(LinesOf(csvText)[1], Comma)

RECURSIVE RowsFrom(_, _, _)
RowsFrom(lines, headers, i) ==
    IF i > Len(lines) THEN << >>
    ELSE LET values == parseCSVLine(lines[i])
         IN  (IF Len(values) = Len(headers)
              THEN <<RowFrom(headers, values, Len(headers))>>
              ELSE << >>) \o RowsFrom(lines, headers, i + 1)

parseCSV(csvText) == RowsFrom(LinesOf(csvText), HeadersOf(csvText), 2)

(***************************************************************************)
(* The state of the program.                                               *)
(***************************************************************************)
VARIABLES
    nationalData,        \* DataProcessor.nationalData: a series
    stateData,           \* DataProcessor.stateData: state name -> series
    metroData,           \* DataProcessor.metroData: metro name -> series
    processedBetas,      \* DataProcessor.processedBetas: state name -> result
    processedMetroBetas, \* DataProcessor.processedMetroBetas
    pc,                  \* where the load cycle stands
    formattedState,      \* what getFormattedStateData returned (the dashboard's stateData)
    formattedMetro,      \* what getFormattedMetroData returned (the dashboard's metroData)
    csvText,             \* the argument of a parseCSV call
    csvRows,             \* what that call returned
    files,               \* the server's data directory: resource -> text
    calls,               \* the loadData invocations: where each stands, what it returned
    timeSeries,          \* the array a calculateChanges call is given
    changes,             \* what that call returned
    csvNames,            \* createMetroNameMapping's first argument: the source labels
    cbsaNames,           \* its second argument: the canonical labels
    mapping,             \* what it returned: source label -> canonical label
    matches,             \* bestMatch and bestScore of every label it scored
    missingCoordinates,  \* createMetroLayer's list of the metros without coordinates
    markers,             \* the metros createMetroLayer drew
    dashboard,           \* the fields of the RealEstateDashboard, and init's success
    leaflet,             \* the map: the data layers attached to it, how many were made
    fetching,            \* the createMetroLayer calls that await the coordinates
    lightbox,            \* the overlay, window.trendChart and the render timers
    testData             \* whether testData.js defined TEST_STATE_DATA and calculateMockBetas

vars == <<nationalData, stateData, metroData, processedBetas, processedMetroBetas,
          pc, formattedState, formattedMetro, csvText, csvRows, files, calls,
          timeSeries, changes, csvNames, cbsaNames, mapping, matches,
          missingCoordinates, markers, dashboard, leaflet, fetching, lightbox, testData>>

\* The page: the dashboard and what it draws on.
page == <<dashboard, leaflet, fetching, lightbox, testData>>

\* What the engine and the formatting calls leave alone.
outside == <<csvText, csvRows, files, calls, timeSeries, changes,
             csvNames, cbsaNames, mapping, matches, missingCoordinates, markers, page>>

\* What the loading, parsing and change calls leave alone.
reconciler == <<csvNames, cbsaNames, mapping, matches, missingCoordinates, markers, page>>

\* An object without keys.
EmptyObject == << >>

\* currentLayer = null
NoLayer == [view |-> "none", id |-> 0]

\* The page after the constructor of RealEstateDashboard, before init.
Constructed ==
    /\ dashboard = [isDataLoaded |-> FALSE, currentView |-> "state", currentLayer |-> NoLayer,
                    stateData |-> "empty", metroData |-> "empty",
                    success |-> "pending", viewSelector |-> FALSE]
    /\ leaflet = [layers |-> {}, created |-> 0]
    /\ fetching = 0
    /\ lightbox = [active |-> FALSE, trendChart |-> FALSE, timers |-> 0]

(***************************************************************************)
(* The engine after ingestion: calculateBetas, calculateMetroBetas and the *)
(* two formatting calls of the dashboard, from every store of the bounded  *)
(* family below.                                                           *)
(***************************************************************************)
Dates == 1..MaxDates

\* The regular cells of a metric column (positive numbers) and the irregular
\* ones: an empty cell, a zero count and a text that is not a number.  Each
\* series of the family holds at most one irregular cell or lacks at most
\* one month.
Regular == {FromInt(1), FromInt(5)}
Irregular == {Text(""), Zero, Text("N/A")}
Absent == [k |-> "absent", m |-> 0, e |-> 0, s |-> ""]

\* The cells of a series: regular ones, but for the cell of month pos (if
\* pos is a month), which holds odd.
CellsWith(regular, pos, odd) ==
    [d \in Dates |-> IF d = pos THEN odd ELSE regular[d]]

\* The series of one geography: one row for each month whose cell is not
\* Absent, newest first, as ingestion leaves it.
RECURSIVE SeriesFrom(_, _, _, _)
SeriesFrom(keyField, name, cell, d) ==
    IF d = 0 THEN << >>
    ELSE (IF cell[d] = Absent THEN << >>
          ELSE <<[month_date_yyyymm |-> FromInt(d), median_listing_price |-> cell[d]]
                 @@ (IF keyField = "" THEN << >> ELSE (keyField :> Text(name)))>>)
         \o SeriesFrom(keyField, name, cell, d - 1)

SeriesOf(keyField, name, cell) == SeriesFrom(keyField, name, cell, MaxDates)

\* The store after ingestion, for the cells of the national file and those
\* of one state and one metro area (which carry the same cells).
StoreOf(nationalCells, localCells) ==
    /\ nationalData = SeriesOf("", "", nationalCells)
    /\ stateData = ("Ohio" :> SeriesOf("state", "Ohio", localCells))
    /\ metroData = ("Akron, OH" :> SeriesOf("cbsa_title", "Akron, OH", localCells))
    /\ processedBetas = EmptyObject
    /\ processedMetroBetas = EmptyObject
    /\ pc = "calculateBetas"
    /\ formattedState = EmptyObject
    /\ formattedMetro = EmptyObject
    /\ csvText = << >>
    /\ csvRows = << >>
    /\ files = EmptyObject
    /\ calls = EmptyObject
    /\ timeSeries = << >>
    /\ changes = EmptyObject
    /\ csvNames = << >>
    /\ cbsaNames = << >>
    /\ mapping = EmptyObject
    /\ matches = EmptyObject
    /\ missingCoordinates = << >>
    /\ markers = << >>
    /\ Constructed
    /\ testData = FALSE

\* The regular cells of a series of the family: one value in the even
\* months and one in the odd months.
Periodic ==
    {[d \in Dates |-> IF d % 2 = 0 THEN even ELSE uneven] :
        even \in Regular, uneven \in Regular}

\* The cells of the series of the family.
SeriesCells ==
    {CellsWith(regular, pos, odd) :
        regular \in Periodic, pos \in 0..MaxDates, odd \in Irregular \cup {Absent}}

InitEngine ==
    \E nationalCells \in SeriesCells, localCells \in SeriesCells :
        StoreOf(nationalCells, localCells)

\* What calculateBetas leaves in processedBetas: a result for every state
\* of the store, the results of other names kept.
StateBetasOf(states, national, processed) ==
    [state \in DOMAIN states |-> calculateStateBetas(states[state], national, state)]
    @@ processed

\* What calculateMetroBetas leaves in processedMetroBetas.
MetroBetasOf(metros, national, processed) ==
    [metro \in DOMAIN metros |-> calculateMetroAreaBetas(metros[metro], national, metro)]
    @@ processed

calculateBetas ==
    /\ pc = "calculateBetas"
    /\ processedBetas' = StateBetasOf(stateData, nationalData, processedBetas)
    /\ pc' = "calculateMetroBetas"
    /\ UNCHANGED <<nationalData, stateData, metroData, processedMetroBetas,
                   formattedState, formattedMetro, outside>>

calculateMetroBetas ==
    /\ pc = "calculateMetroBetas"
    /\ processedMetroBetas' = MetroBetasOf(metroData, nationalData, processedMetroBetas)
    /\ pc' = "loaded"
    /\ UNCHANGED <<nationalData, stateData, metroData, processedBetas,
                   formattedState, formattedMetro, outside>>

\* The store after calculateChanges was called on the series of every
\* name of processed.
StoreAfterFormat(store, processed) ==
    [name \in DOMAIN store |->
        IF name \in DOMAIN processed THEN SeriesAfterChanges(store[name]) ELSE store[name]]

getFormattedStateData ==
    /\ pc = "loaded"
    /\ formattedState' = FormatState(processedBetas, stateData)
    /\ stateData' = StoreAfterFormat(stateData, processedBetas)
    /\ pc' = "formattedState"
    /\ UNCHANGED <<nationalData, metroData, processedBetas,
                   processedMetroBetas, formattedMetro, outside>>

getFormattedMetroData ==
    /\ pc = "formattedState"
    /\ formattedMetro' = FormatMetro(processedMetroBetas, metroData)
    /\ metroData' = StoreAfterFormat(metroData, processedMetroBetas)
    /\ pc' = "done"
    /\ UNCHANGED <<nationalData, stateData, processedBetas,
                   processedMetroBetas, formattedState, outside>>

NextEngine ==
    \/ calculateBetas
    \/ calculateMetroBetas
    \/ getFormattedStateData
    \/ getFormattedMetroData

SpecEngine == InitEngine /\ [][NextEngine]_vars


(***************************************************************************)
(* The engine on series of positive numbers only: the national cells are   *)
(* powers of five, the local cells are regular.                            *)
(***************************************************************************)
Powers == {FromInt(5^k) : k \in 0..(MaxDates - 1)}

InitTrend ==
    \E nationalCells \in [Dates -> Powers], localCells \in [Dates -> Regular] :
        StoreOf(nationalCells, localCells)

SpecTrend == InitTrend /\ [][NextEngine]_vars

(***************************************************************************)
(* parseCSV on every text of at most MaxText characters of the alphabet.   *)
(***************************************************************************)
MaxText == 5

Alphabet == {"a", "1", Comma, Quote, Newline}

Texts == UNION {[1..n -> Alphabet] : n \in 0..MaxText}

InitCSV ==
    /\ csvText \in Texts
    /\ csvRows = << >>
    /\ pc = "parseCSV"
    /\ nationalData = << >>
    /\ stateData = EmptyObject
    /\ metroData = EmptyObject
    /\ processedBetas = EmptyObject
    /\ processedMetroBetas = EmptyObject
    /\ formattedState = EmptyObject
    /\ formattedMetro = EmptyObject
    /\ files = EmptyObject
    /\ calls = EmptyObject
    /\ timeSeries = << >>
    /\ changes = EmptyObject
    /\ csvNames = << >>
    /\ cbsaNames = << >>
    /\ mapping = EmptyObject
    /\ matches = EmptyObject
    /\ missingCoordinates = << >>
    /\ markers = << >>
    /\ Constructed
    /\ testData = FALSE

\* A call of parseCSV on the text.  parseCSV has no throw statement and no
\* operation that throws on a string (the trimmed text always has a first
\* line, the empty one at least): every call returns, none ends in "failed".
ParseText ==
    /\ pc = "parseCSV"
    /\ csvRows' = parseCSV(csvText)
    /\ pc' = "parsed"
    /\ UNCHANGED <<nationalData, stateData, metroData, processedBetas,
                   processedMetroBetas, formattedState, formattedMetro,
                   csvText, files, calls, timeSeries, changes, reconciler>>

NextCSV == ParseText

SpecCSV == InitCSV /\ [][NextCSV]_vars


(***************************************************************************)
(* The load cycle: MaxCalls invocations of loadData on one DataProcessor,  *)
(* each suspended at its awaits, against a data directory whose state file *)
(* is any file of the bounded family below.  The two awaits of a loader    *)
(* (the fetch and the reading of the body) are one step: the loader does   *)
(* not touch the store between them.                                       *)
(***************************************************************************)
MaxCalls == 2
MaxRows == 2

Calls == 1..MaxCalls

\* How a request ends: with the file, with the error page of a response
\* that is not OK (fetch resolves on it as on any response), or rejected
\* (no connection, or a body that cannot be read).
Outcomes == {"ok", "notOk", "rejects"}

ErrorPage == <<"<html>", Newline, "4", "0", "4", Newline, "</html>">>

\* The text of a file: its header line and one line for each row.
RECURSIVE LinesText(_)
LinesText(rowLines) ==
    IF rowLines = << >> THEN << >>
    ELSE <<Newline>> \o rowLines[1] \o LinesText(Tail(rowLines))

FileText(keyField, rowLines) ==
    (IF keyField = "" THEN << >> ELSE <<keyField, Comma>>)
    \o <<"month_date_yyyymm", Comma, "median_listing_price">>
    \o LinesText(rowLines)

NationalFile == FileText("", << <<"1", Comma, "1">>, <<"2", Comma, "5">> >>)

MetroFile ==
    FileText("cbsa_title",
             << <<Quote, "Akron", Comma, Space, "OH", Quote, Comma, "1", Comma, "1">>,
                <<Quote, "Akron", Comma, Space, "OH", Quote, Comma, "2", Comma, "5">> >>)

\* The state files: at most MaxRows rows, each of a state and a month, in
\* any order, a month of a state possibly repeated.
StateLines == {<<state, Comma, month, Comma, "5">> : state \in {"Ohio", "Texas"},
                                                     month \in {"1", "2"}}

StateFiles ==
    {FileText("state", rowLines) : rowLines \in UNION {[1..n -> StateLines] : n \in 0..MaxRows}}

\* The key an object files a value under (the value as a string); the names
\* of the model's files are words.
KeyOf(v) ==
    CASE v.k = "text" -> v.s
      [] v.k = "undef" -> "undefined"
      [] v.k = "null" -> "null"
      [] v.k = "nan" -> "NaN"
      [] OTHER -> "number"

\* row[f1] || row[f2] || ...
RECURSIVE FirstTruthy(_, _)
FirstTruthy(row, fields) ==
    IF Len(fields) = 1 THEN Get(row, fields[1])
    ELSE OrElse(Get(row, fields[1]), FirstTruthy(row, Tail(fields)))

\* The forEach that groups the first n rows: each row is pushed onto the
\* array of its key, an array the store already holds included.
RECURSIVE PushRows(_, _, _, _)
PushRows(store, rows, fields, n) ==
    IF n = 0 THEN store
    ELSE LET before == PushRows(store, rows, fields, n - 1)
             key == KeyOf(FirstTruthy(rows[n], fields))
         IN  IF key \in DOMAIN before
             THEN [before EXCEPT ![key] = Append(@, rows[n])]
             ELSE (key :> <<rows[n]>>) @@ before

\* Grouping that leaves every array in the order of the file.
SortEach_FileOrder(store) == store

\* The forEach that sorts the array of every key of the store.
SortEach(store) == [key \in DOMAIN store |-> SortByDateDesc(store[key])]

Grouped(store, rows, fields) == SortEach(PushRows(store, rows, fields, Len(rows)))

\* What response.text() gives.
Body(resource, outcome) == IF outcome = "ok" THEN files[resource] ELSE ErrorPage

\* The resources an invocation found unavailable so far.
Failed(i, resource, outcome) ==
    IF outcome = "ok" THEN calls[i].failed ELSE calls[i].failed \cup {resource}

InitLoad ==
    /\ nationalData = << >>
    /\ stateData = EmptyObject
    /\ metroData = EmptyObject
    /\ processedBetas = EmptyObject
    /\ processedMetroBetas = EmptyObject
    /\ pc = "load"
    /\ formattedState = EmptyObject
    /\ formattedMetro = EmptyObject
    /\ csvText = << >>
    /\ csvRows = << >>
    /\ \E stateFile \in StateFiles :
          files = [national |-> NationalFile, state |-> stateFile, metro |-> MetroFile]
    /\ calls = [i \in Calls |-> [pc |-> "idle", result |-> "pending", failed |-> {}]]
    /\ timeSeries = << >>
    /\ changes = EmptyObject
    /\ csvNames = << >>
    /\ cbsaNames = << >>
    /\ mapping = EmptyObject
    /\ matches = EmptyObject
    /\ missingCoordinates = << >>
    /\ markers = << >>
    /\ Constructed
    /\ testData = FALSE

\* loadData is called: it runs to the fetch of loadNationalData.
loadData(i) ==
    /\ calls[i].pc = "idle"
    /\ calls' = [calls EXCEPT ![i].pc = "loadNationalData"]
    /\ UNCHANGED <<nationalData, stateData, metroData, processedBetas,
                   processedMetroBetas, pc, formattedState, formattedMetro,
                   csvText, csvRows, files, timeSeries, changes, reconciler>>

\* The request of loadNationalData settles; on a rejection the catch of
\* loadData returns false.
loadNationalData(i) ==
    /\ calls[i].pc = "loadNationalData"
    /\ \E outcome \in Outcomes :
          IF outcome = "rejects"
          THEN /\ calls' = [calls EXCEPT ![i] = [pc |-> "done", result |-> "false",
                                                 failed |-> Failed(i, "national", outcome)]]
               /\ UNCHANGED nationalData
          ELSE /\ nationalData' = SortByDateDesc(parseCSV(Body("national", outcome)))
               /\ calls' = [calls EXCEPT ![i] = [pc |-> "loadStateData", result |-> "pending",
                                                 failed |-> Failed(i, "national", outcome)]]
    /\ UNCHANGED <<stateData, metroData, processedBetas, processedMetroBetas, pc,
                   formattedState, formattedMetro, csvText, csvRows, files,
                   timeSeries, changes, reconciler>>

loadStateData(i) ==
    /\ calls[i].pc = "loadStateData"
    /\ \E outcome \in Outcomes :
          IF outcome = "rejects"
          THEN /\ calls' = [calls EXCEPT ![i] = [pc |-> "done", result |-> "false",
                                                 failed |-> Failed(i, "state", outcome)]]
               /\ UNCHANGED stateData
          ELSE /\ stateData' = Grouped(stateData, parseCSV(Body("state", outcome)), <<"state">>)
               /\ calls' = [calls EXCEPT ![i] = [pc |-> "loadMetroData", result |-> "pending",
                                                 failed |-> Failed(i, "state", outcome)]]
    /\ UNCHANGED <<nationalData, metroData, processedBetas, processedMetroBetas, pc,
                   formattedState, formattedMetro, csvText, csvRows, files,
                   timeSeries, changes, reconciler>>

\* The request of loadMetroData settles (its own catch empties metroData on
\* a rejection); loadData then runs calculateBetas and calculateMetroBetas
\* and returns true.
loadMetroData(i) ==
    /\ calls[i].pc = "loadMetroData"
    /\ \E outcome \in Outcomes :
          /\ metroData' =
                IF outcome = "rejects" THEN EmptyObject
                ELSE Grouped(metroData, parseCSV(Body("metro", outcome)),
                             <<"cbsa_title", "metro_name", "metro">>)
          /\ calls' = [calls EXCEPT ![i] = [pc |-> "done", result |-> "true",
                                            failed |-> Failed(i, "metro", outcome)]]
    /\ processedBetas' = StateBetasOf(stateData, nationalData, processedBetas)
    /\ processedMetroBetas' = MetroBetasOf(metroData', nationalData, processedMetroBetas)
    /\ UNCHANGED <<nationalData, stateData, pc, formattedState, formattedMetro,
                   csvText, csvRows, files, timeSeries, changes, reconciler>>

NextLoad ==
    \E i \in Calls :
        \/ loadData(i)
        \/ loadNationalData(i)
        \/ loadStateData(i)
        \/ loadMetroData(i)

SpecLoad == InitLoad /\ [][NextLoad]_vars

\* One load cycle: the first invocation alone, the others never called.
NextSingleLoad ==
    \/ loadData(1)
    \/ loadNationalData(1)
    \/ loadStateData(1)
    \/ loadMetroData(1)

SpecSingleLoad == InitLoad /\ [][NextSingleLoad]_vars


(***************************************************************************)
(* calculateChanges on a series given in any order: the months 1..n for    *)
(* every n up to MaxDates, in every order, the cells those of the engine's *)
(* family without the text that is not a number.                           *)
(***************************************************************************)
\* The orders of n rows.
Orders(n) == {f \in [1..n -> 1..n] : \A i \in 1..n : \A j \in 1..n : f[i] = f[j] => i = j}

ChangeCells ==
    {CellsWith(regular, pos, odd) :
        regular \in Periodic, pos \in 0..MaxDates, odd \in {Text(""), Zero}}

\* The rows of the months 1..n in the given order.
SeriesInOrder(cell, order) ==
    [i \in DOMAIN order |->
        [month_date_yyyymm |-> FromInt(order[i]), median_listing_price |-> cell[order[i]]]]

InitChanges ==
    /\ \E n \in 1..MaxDates : \E order \in Orders(n) : \E cell \in ChangeCells :
          timeSeries = SeriesInOrder(cell, order)
    /\ changes = EmptyObject
    /\ csvNames = << >>
    /\ cbsaNames = << >>
    /\ mapping = EmptyObject
    /\ matches = EmptyObject
    /\ missingCoordinates = << >>
    /\ markers = << >>
    /\ Constructed
    /\ testData = FALSE
    /\ pc = "calculateChanges"
    /\ nationalData = << >>
    /\ stateData = EmptyObject
    /\ metroData = EmptyObject
    /\ processedBetas = EmptyObject
    /\ processedMetroBetas = EmptyObject
    /\ formattedState = EmptyObject
    /\ formattedMetro = EmptyObject
    /\ csvText = << >>
    /\ csvRows = << >>
    /\ files = EmptyObject
    /\ calls = EmptyObject

\* A call of calculateChanges on the series, for the median listing price.
CallCalculateChanges ==
    /\ pc = "calculateChanges"
    /\ changes' = calculateChanges(timeSeries, "median_listing_price")
    /\ timeSeries' = SeriesAfterChanges(timeSeries)
    /\ pc' = "changed"
    /\ UNCHANGED <<nationalData, stateData, metroData, processedBetas,
                   processedMetroBetas, formattedState, formattedMetro,
                   csvText, csvRows, files, calls, reconciler>>

NextChanges == CallCalculateChanges

SpecChanges == InitChanges /\ [][NextChanges]_vars


(***************************************************************************)
(* The engine and the formatting calls on files with two metric columns    *)
(* and, in some, the precomputed change columns of the median listing      *)
(* price: one state and one metro area with the months 1..n, n being       *)
(* YearLag or YearLag + 1.                                                 *)
(***************************************************************************)
\* The values of a precomputed change column: none (the file has no such
\* column), zero, a number other than zero.
Precomputed == {Absent, Zero, FromInt(5)}

\* A column of a row, if the file has it.
Column(field, value) == IF value = Absent THEN << >> ELSE (field :> value)

\* The rows of the months d..1, newest first.
RECURSIVE RecordRows(_, _, _, _, _, _, _)
RecordRows(keyField, name, price, active, mm, yy, d) ==
    IF d = 0 THEN << >>
    ELSE <<[month_date_yyyymm |-> FromInt(d),
            median_listing_price |-> price[d],
            active_listing_count |-> active[d]]
           @@ (keyField :> Text(name))
           @@ Column("median_listing_price_mm", mm)
           @@ Column("median_listing_price_yy", yy)>>
         \o RecordRows(keyField, name, price, active, mm, yy, d - 1)

InitRecord ==
    /\ nationalData = SeriesOf("", "", [d \in Dates |-> FromInt(IF d % 2 = 0 THEN 5 ELSE 1)])
    /\ \E n \in {YearLag, YearLag + 1} : \E price \in Periodic, active \in Periodic :
       \E mm \in Precomputed, yy \in Precomputed :
          /\ stateData = ("Ohio" :> RecordRows("state", "Ohio", price, active, mm, yy, n))
          /\ metroData = ("Akron, OH" :>
                RecordRows("cbsa_title", "Akron, OH", price, active, mm, yy, n))
    /\ processedBetas = EmptyObject
    /\ processedMetroBetas = EmptyObject
    /\ pc = "calculateBetas"
    /\ formattedState = EmptyObject
    /\ formattedMetro = EmptyObject
    /\ csvText = << >>
    /\ csvRows = << >>
    /\ files = EmptyObject
    /\ calls = EmptyObject
    /\ timeSeries = << >>
    /\ changes = EmptyObject
    /\ csvNames = << >>
    /\ cbsaNames = << >>
    /\ mapping = EmptyObject
    /\ matches = EmptyObject
    /\ missingCoordinates = << >>
    /\ markers = << >>
    /\ Constructed
    /\ testData = FALSE

SpecRecord == InitRecord /\ [][NextEngine]_vars

(***************************************************************************)
(* The reconciler of metro names: createMetroNameMapping of the dashboard. *)
(* Labels are strings; a value of the mapping is a value of the language.  *)
(***************************************************************************)

\* How many labels an argument of the family has at most.
MaxLabels == 2

\* The character of a string at a position, and the string after its first
\* character.
At(str, i) == SubSeq(str, i, i)
Rest(str) == SubSeq(str, 2, Len(str))

UpperCase == "ABCDEFGHIJKLMNOPQRSTUVWXYZ"
LowerCase == "abcdefghijklmnopqrstuvwxyz"
Letters == {At(LowerCase, i) : i \in 1..Len(LowerCase)}

\* String.prototype.toLowerCase, on the letters A to Z.
LowerOfUpper ==
    [c \in {At(UpperCase, i) : i \in 1..Len(UpperCase)} |->
        At(LowerCase, CHOOSE i \in 1..Len(UpperCase) : At(UpperCase, i) = c)]

LowerOf(c) == IF c \in DOMAIN LowerOfUpper THEN LowerOfUpper[c] ELSE c

RECURSIVE toLowerCase(_)
toLowerCase(str) ==
    IF str = "" THEN "" ELSE LowerOf(At(str, 1)) \o toLowerCase(Rest(str))

\* String.prototype.includes
includes(str, search) ==
    \E i \in 1..(Len(str) - Len(search) + 1) : SubSeq(str, i, i + Len(search) - 1) = search

\* String.prototype.trim
RECURSIVE trimStart(_)
trimStart(str) ==
    IF str # "" /\ At(str, 1) \in Whitespace THEN trimStart(Rest(str)) ELSE str

RECURSIVE trimEnd(_)
trimEnd(str) ==
    IF str # "" /\ At(str, Len(str)) \in Whitespace
    THEN trimEnd(SubSeq(str, 1, Len(str) - 1)) ELSE str

trim(str) == trimEnd(trimStart(str))

\* .replace(/[^a-z0-9\s]/g, '')
RECURSIVE RemoveSpecial(_)
RemoveSpecial(str) ==
    IF str = "" THEN ""
    ELSE (IF At(str, 1) \in Letters \cup Digits \cup Whitespace THEN At(str, 1) ELSE "")
         \o RemoveSpecial(Rest(str))

\* .replace(/\s+/g, ' ')
RECURSIVE CollapseWhitespace(_)
CollapseWhitespace(str) ==
    IF str = "" THEN ""
    ELSE IF At(str, 1) \in Whitespace THEN Space \o CollapseWhitespace(trimStart(str))
    ELSE At(str, 1) \o CollapseWhitespace(Rest(str))

\* The helper normalize of createMetroNameMapping.
normalize(name) == trim(CollapseWhitespace(RemoveSpecial(toLowerCase(name))))

\* name.split(/[-,]/)
RECURSIVE SplitLabel(_, _)
SplitLabel(str, part) ==
    IF str = "" THEN <<part>>
    ELSE IF At(str, 1) \in {"-", Comma} THEN <<part>> \o SplitLabel(Rest(str), "")
    ELSE SplitLabel(Rest(str), part \o At(str, 1))

\* part.replace(/\s+(metro|micro|area|msa).*$/i, ''): the leftmost
\* whitespace that runs up to one of the four words, and all after it, go
\* (the dot of the pattern stops at a line break).
AreaWords == {"metro", "micro", "area", "msa"}

WordAt(str, j) ==
    \E w \in AreaWords :
        j + Len(w) - 1 <= Len(str) /\ toLowerCase(SubSeq(str, j, j + Len(w) - 1)) = w

SuffixAt(str, i) ==
    /\ At(str, i) \in Whitespace
    /\ \E j \in (i + 1)..Len(str) :
          /\ \A k \in i..(j - 1) : At(str, k) \in Whitespace
          /\ WordAt(str, j)
          /\ \A k \in j..Len(str) : At(str, k) # Newline

RemoveAreaSuffix(str) ==
    IF \E i \in 1..Len(str) : SuffixAt(str, i)
    THEN LET first == CHOOSE i \in 1..Len(str) :
                          SuffixAt(str, i) /\ \A h \in 1..(i - 1) : ~SuffixAt(str, h)
         IN  SubSeq(str, 1, first - 1)
    ELSE str

LongerThanTwo(part) == Len(part) > 2

\* The helper extractCityNames of createMetroNameMapping.
extractCityNames(name) ==
    LET parts == SplitLabel(name, "")
        trimmed == [i \in DOMAIN parts |-> trim(parts[i])]
        kept == SelectSeq(trimmed, LongerThanTwo)
    IN  [i \in DOMAIN kept |-> normalize(RemoveAreaSuffix(kept[i]))]

\* The test of one city of the source label against one of the candidate.
CityMatch(city, cbsaCity) ==
    LET minLength == IF Len(city) < Len(cbsaCity) THEN Len(city) ELSE Len(cbsaCity)
    IN  /\ ~(Len(city) < 4 \/ Len(cbsaCity) < 4)
        /\ \/ city = cbsaCity
           \/ includes(city, cbsaCity) /\ Len(cbsaCity) * 10 >= minLength * 8
           \/ includes(cbsaCity, city) /\ Len(city) * 10 >= minLength * 8

\* The score of a candidate in the inner loop.
Score(csvName, cbsaName) ==
    LET csvNormalized == normalize(csvName)
        cbsaNormalized == normalize(cbsaName)
        csvCities == extractCityNames(csvName)
        cbsaCities == extractCityNames(cbsaName)
        cityMatches == Cardinality({i \in DOMAIN csvCities :
                           \E j \in DOMAIN cbsaCities : CityMatch(csvCities[i], cbsaCities[j])})
        byCities == IF 50 + cityMatches * 15 < 90 THEN 50 + cityMatches * 15 ELSE 90
    IN  IF csvNormalized = cbsaNormalized THEN 100
        ELSE IF includes(cbsaNormalized, csvNormalized) THEN 80
        ELSE IF cityMatches > 0 THEN byCities
        ELSE 0

\* The inner loop with no candidate skipped.
Skipped_Never(csvName, cbsaName) == FALSE

\* The candidates the inner loop returns from before scoring them.
Skipped(csvName, cbsaName) ==
    includes(toLowerCase(csvName), "las vegas") /\ includes(cbsaName, "Las Vegas, NM")

\* The labels of the family: metro names of the listing files, and titles
\* of the coordinate file.
SourceLabels ==
    {"Miami", "Las Vegas", "las vegas", "Las Vegas, NM Micro Area", "akron oh metro area",
     "Portland-South Portland, ME", "Minneapolis-St. Paul, MN", "constructor"}

CanonicalLabels ==
    {"Las Vegas, NM Micro Area", "Las Vegas-Henderson-North Las Vegas, NV Metro Area",
     "Miami, OK Micro Area", "Akron, OH Metro Area",
     "Portland-Vancouver-Hillsboro, OR-WA Metro Area",
     "Minneapolis-St. Paul-Bloomington, MN-WI Metro Area", "Constructor"}

\* The score of every candidate of the family for every label of it,
\* computed once.
ScoreOf ==
    [csvName \in SourceLabels |->
        [cbsaName \in CanonicalLabels |-> Score(csvName, cbsaName)]]

\* The candidates of the family the inner loop skips for a label of it.
SkippedOf ==
    [csvName \in SourceLabels |->
        {cbsaName \in CanonicalLabels : Skipped(csvName, cbsaName)}]

\* The inner loop: bestMatch and bestScore after the candidates.
RECURSIVE BestMatch(_, _, _)
BestMatch(csvName, candidates, best) ==
    IF candidates = << >> THEN best
    ELSE LET cbsaName == Head(candidates)
             score == ScoreOf[csvName][cbsaName]
         IN  IF cbsaName \notin SkippedOf[csvName] /\ score > best.bestScore
             THEN BestMatch(csvName, Tail(candidates),
                            [bestMatch |-> Text(cbsaName), bestScore |-> score])
             ELSE BestMatch(csvName, Tail(candidates), best)

\* The table hardcodedMappings.
hardcodedMappings ==
    "New York, NY" :>
        "New York-Newark-Jersey City, NY-NJ Metro Area" @@
    "New York" :>
        "New York-Newark-Jersey City, NY-NJ Metro Area" @@
    "New York City" :>
        "New York-Newark-Jersey City, NY-NJ Metro Area" @@
    "NYC" :>
        "New York-Newark-Jersey City, NY-NJ Metro Area" @@
    "New York-Newark-Jersey City" :>
        "New York-Newark-Jersey City, NY-NJ Metro Area" @@
    "New York-Newark-Jersey City, NY-NJ-PA" :>
        "New York-Newark-Jersey City, NY-NJ Metro Area" @@
    "Washington, DC" :>
        "Washington-Arlington-Alexandria, DC-VA-MD-WV Metro Area" @@
    "Washington" :>
        "Washington-Arlington-Alexandria, DC-VA-MD-WV Metro Area" @@
    "Washington DC" :>
        "Washington-Arlington-Alexandria, DC-VA-MD-WV Metro Area" @@
    "DC" :>
        "Washington-Arlington-Alexandria, DC-VA-MD-WV Metro Area" @@
    "Washington-Arlington-Alexandria" :>
        "Washington-Arlington-Alexandria, DC-VA-MD-WV Metro Area" @@
    "Washington-Arlington-Alexandria, DC-VA-MD-WV" :>
        "Washington-Arlington-Alexandria, DC-VA-MD-WV Metro Area" @@
    "Las Vegas, NV" :>
        "Las Vegas-Henderson-North Las Vegas, NV Metro Area" @@
    "Las Vegas" :>
        "Las Vegas-Henderson-North Las Vegas, NV Metro Area" @@
    "Las Vegas Nevada" :>
        "Las Vegas-Henderson-North Las Vegas, NV Metro Area" @@
    "Las Vegas-Henderson" :>
        "Las Vegas-Henderson-North Las Vegas, NV Metro Area" @@
    "Las Vegas-Henderson-Paradise, NV" :>
        "Las Vegas-Henderson-North Las Vegas, NV Metro Area" @@
    "Las Vegas-Henderson-Paradise" :>
        "Las Vegas-Henderson-North Las Vegas, NV Metro Area" @@
    "Las Vegas-Henderson-North Las Vegas, NV" :>
        "Las Vegas-Henderson-North Las Vegas, NV Metro Area" @@
    "Las Vegas-Henderson-North Las Vegas" :>
        "Las Vegas-Henderson-North Las Vegas, NV Metro Area" @@
    "Miami, FL" :>
        "Miami-Fort Lauderdale-West Palm Beach, FL Metro Area" @@
    "Miami" :>
        "Miami-Fort Lauderdale-West Palm Beach, FL Metro Area" @@
    "Miami-Fort Lauderdale" :>
        "Miami-Fort Lauderdale-West Palm Beach, FL Metro Area" @@
    "Miami-Fort Lauderdale-Pompano Beach, FL" :>
        "Miami-Fort Lauderdale-West Palm Beach, FL Metro Area" @@
    "Miami-Fort Lauderdale-Pompano Beach" :>
        "Miami-Fort Lauderdale-West Palm Beach, FL Metro Area" @@
    "San Francisco, CA" :>
        "San Francisco-Oakland-Fremont, CA Metro Area" @@
    "San Francisco" :>
        "San Francisco-Oakland-Fremont, CA Metro Area" @@
    "SF" :>
        "San Francisco-Oakland-Fremont, CA Metro Area" @@
    "San Francisco-Oakland" :>
        "San Francisco-Oakland-Fremont, CA Metro Area" @@
    "San Francisco Bay Area" :>
        "San Francisco-Oakland-Fremont, CA Metro Area" @@
    "San Francisco-Oakland-Berkeley, CA" :>
        "San Francisco-Oakland-Fremont, CA Metro Area" @@
    "San Francisco-Oakland-Berkeley" :>
        "San Francisco-Oakland-Fremont, CA Metro Area" @@
    "Lafayette, LA" :>
        "Lafayette, LA Metro Area" @@
    "Lafayette-West Lafayette, IN" :>
        "Lafayette-West Lafayette, IN Metro Area" @@
    "Charleston-North Charleston, SC" :>
        "Charleston-North Charleston, SC Metro Area" @@
    "Birmingham-Hoover, AL" :>
        "Birmingham, AL Metro Area" @@
    "Nashville-Davidson-Murfreesboro-Franklin, TN" :>
        "Nashville-Davidson--Murfreesboro--Franklin, TN Metro Area" @@
    "Atlanta-Sandy Springs-Alpharetta, GA" :>
        "Atlanta-Sandy Springs-Roswell, GA Metro Area"

\* The properties every object inherits, and the value of one of them.
ObjectPrototype ==
    {"constructor", "toString", "toLocaleString", "valueOf", "hasOwnProperty",
     "isPrototypeOf", "propertyIsEnumerable"}

Inherited(key) == [k |-> "function", m |-> 0, e |-> 0, s |-> key]

\* object[key] of an object literal whose own properties are labels.
Property(object, key) ==
    IF key \in DOMAIN object THEN object[key]
    ELSE IF key \in ObjectPrototype THEN Inherited(key)
    ELSE Undefined

\* object[key] = value
WithProperty(object, key, value) ==
    [x \in DOMAIN object \cup {key} |-> IF x = key THEN value ELSE object[x]]

\* The first loop: the labels the table has, with what it has for them.
RECURSIVE ApplyHardcoded(_, _)
ApplyHardcoded(names, object) ==
    IF names = << >> THEN object
    ELSE LET csvName == Head(names)
             hardcoded == Property([x \in DOMAIN hardcodedMappings |->
                                       Text(hardcodedMappings[x])], csvName)
         IN  ApplyHardcoded(Tail(names),
                 IF Truthy(hardcoded) THEN WithProperty(object, csvName, hardcoded)
                 ELSE object)

\* The second loop with no label skipped.
AlreadyMapped_Never(object, csvName) == FALSE

\* if (mapping[csvName]) return
AlreadyMapped(object, csvName) == Truthy(Property(object, csvName))

\* The second loop: the mapping, and the locals of every iteration that
\* scored.
RECURSIVE MatchEach(_, _, _)
MatchEach(names, candidates, acc) ==
    IF names = << >> THEN acc
    ELSE LET csvName == Head(names)
             best == BestMatch(csvName, candidates, [bestMatch |-> Null, bestScore |-> 0])
         IN  IF AlreadyMapped(acc.mapping, csvName)
             THEN MatchEach(Tail(names), candidates, acc)
             ELSE MatchEach(Tail(names), candidates,
                     [mapping |-> IF Truthy(best.bestMatch) /\ best.bestScore >= 75
                                  THEN WithProperty(acc.mapping, csvName, best.bestMatch)
                                  ELSE acc.mapping,
                      matches |-> WithProperty(acc.matches, csvName, best)])

createMetroNameMapping(names, candidates) ==
    MatchEach(names, candidates,
              [mapping |-> ApplyHardcoded(names, EmptyObject), matches |-> EmptyObject])

\* The arrays of at most MaxLabels labels of a set, none twice: what
\* Object.keys returns.
Keys(labels) ==
    {names \in UNION {[1..n -> labels] : n \in 0..MaxLabels} :
        \A i \in DOMAIN names : \A j \in DOMAIN names : names[i] = names[j] => i = j}

InitReconcile ==
    /\ csvNames \in Keys(SourceLabels)
    /\ cbsaNames \in Keys(CanonicalLabels)
    /\ mapping = EmptyObject
    /\ matches = EmptyObject
    /\ missingCoordinates = << >>
    /\ markers = << >>
    /\ Constructed
    /\ testData = FALSE
    /\ pc = "createMetroNameMapping"
    /\ nationalData = << >>
    /\ stateData = EmptyObject
    /\ metroData = EmptyObject
    /\ processedBetas = EmptyObject
    /\ processedMetroBetas = EmptyObject
    /\ formattedState = EmptyObject
    /\ formattedMetro = EmptyObject
    /\ csvText = << >>
    /\ csvRows = << >>
    /\ files = EmptyObject
    /\ calls = EmptyObject
    /\ timeSeries = << >>
    /\ changes = EmptyObject

\* The call of createMetroNameMapping on the two arrays.
CallCreateMetroNameMapping ==
    /\ pc = "createMetroNameMapping"
    /\ LET returned == createMetroNameMapping(csvNames, cbsaNames)
       IN  mapping' = returned.mapping /\ matches' = returned.matches
    /\ pc' = "mapped"
    /\ UNCHANGED <<nationalData, stateData, metroData, processedBetas,
                   processedMetroBetas, formattedState, formattedMetro,
                   csvText, csvRows, files, calls, timeSeries, changes,
                   csvNames, cbsaNames, missingCoordinates, markers, page>>

\* The coordinates of a metro: an array of two numbers.
Coords == [k |-> "object", m |-> 0, e |-> 0, s |-> "coords"]

\* metroCoordinates: the candidates are its keys.
metroCoordinates ==
    [cbsaName \in {cbsaNames[j] : j \in DOMAIN cbsaNames} |-> Coords]

\* nameMapping[metroName] || metroName
MappedName(metroName) == OrElse(Property(mapping, metroName), Text(metroName))

\* metroCoordinates[mappedName]: a key that is no string is read as the
\* string of it, which no candidate of the family is.
CoordinatesOf(mappedName) ==
    IF mappedName.k = "text" THEN Property(metroCoordinates, mappedName.s) ELSE Undefined

\* The first loop of createMetroLayer over the metros.
RECURSIVE Missing(_)
Missing(names) ==
    IF names = << >> THEN << >>
    ELSE (IF ~Truthy(CoordinatesOf(MappedName(Head(names)))) THEN <<Head(names)>> ELSE << >>)
         \o Missing(Tail(names))

\* The render loop: the metros a marker was made for.
RECURSIVE Rendered(_)
Rendered(names) ==
    IF names = << >> THEN << >>
    ELSE (IF ~Truthy(CoordinatesOf(MappedName(Head(names)))) THEN << >> ELSE <<Head(names)>>)
         \o Rendered(Tail(names))

\* The rest of createMetroLayer after the mapping was made.
RenderMetros ==
    /\ pc = "mapped"
    /\ missingCoordinates' = Missing(csvNames)
    /\ markers' = Rendered(csvNames)
    /\ pc' = "rendered"
    /\ UNCHANGED <<nationalData, stateData, metroData, processedBetas,
                   processedMetroBetas, formattedState, formattedMetro,
                   csvText, csvRows, files, calls, timeSeries, changes,
                   csvNames, cbsaNames, mapping, matches, page>>

NextReconcile == CallCreateMetroNameMapping \/ RenderMetros

SpecReconcile == InitReconcile /\ [][NextReconcile]_vars

(***************************************************************************)
(* The dashboard: init, the view selector, the metro layer that awaits its *)
(* coordinates, and the trend lightbox with its render timer.              *)
(***************************************************************************)

\* How many times the user changes the view, and how many render timers can
\* be pending at once.
MaxChanges == 3
MaxShows == 2

\* The other Init conjuncts of a page that loads: nothing of the processor,
\* the parser or the reconciler is looked at.
InitDashboard ==
    /\ Constructed
    /\ testData \in BOOLEAN
    /\ pc = "init"
    /\ nationalData = << >>
    /\ stateData = EmptyObject
    /\ metroData = EmptyObject
    /\ processedBetas = EmptyObject
    /\ processedMetroBetas = EmptyObject
    /\ formattedState = EmptyObject
    /\ formattedMetro = EmptyObject
    /\ csvText = << >>
    /\ csvRows = << >>
    /\ files = EmptyObject
    /\ calls = EmptyObject
    /\ timeSeries = << >>
    /\ changes = EmptyObject
    /\ csvNames = << >>
    /\ cbsaNames = << >>
    /\ mapping = EmptyObject
    /\ matches = EmptyObject
    /\ missingCoordinates = << >>
    /\ markers = << >>

\* What the page's actions leave alone.
processor == <<nationalData, stateData, metroData, processedBetas, processedMetroBetas,
               formattedState, formattedMetro, csvText, csvRows, files, calls,
               timeSeries, changes, csvNames, cbsaNames, mapping, matches,
               missingCoordinates, markers, testData>>

\* init without the fallback to the test data.
initData_NoFallback(success, defined, metros) ==
    IF success
    THEN [stateData |-> "formatted", metroData |-> metros, isDataLoaded |-> TRUE]
    ELSE [stateData |-> "empty", metroData |-> "empty", isDataLoaded |-> FALSE]

\* The branches of init after loadData: whose data the dashboard holds, and
\* whether it is loaded. The formatted metro data is "empty" when the
\* processor has no metro.
initData(success, defined, metros) ==
    IF success
    THEN [stateData |-> "formatted", metroData |-> metros, isDataLoaded |-> TRUE]
    ELSE IF defined
    THEN [stateData |-> "mock", metroData |-> "empty", isDataLoaded |-> TRUE]
    ELSE [stateData |-> "empty", metroData |-> "empty", isDataLoaded |-> FALSE]

\* L.layerGroup(...): a layer that did not exist before.
NewLayer(view) == [view |-> view, id |-> leaflet.created + 1]

\* ....addTo(this.map)
AddedToMap(layer) == [layers |-> leaflet.layers \cup {layer}, created |-> layer.id]

\* init once loadData has resolved (it catches what it throws, hence
\* resolves true or false): the data, the view selector, the state layer.
init ==
    /\ pc = "init"
    /\ \E success \in BOOLEAN : \E metros \in {"formatted", "empty"} :
          LET data == initData(success, testData, metros)
          IN  IF data.isDataLoaded
              THEN /\ dashboard' = [dashboard EXCEPT
                                       !.success = IF success THEN "true" ELSE "false",
                                       !.stateData = data.stateData,
                                       !.metroData = data.metroData,
                                       !.isDataLoaded = TRUE,
                                       !.viewSelector = TRUE,
                                       !.currentLayer = NewLayer("state")]
                   /\ leaflet' = AddedToMap(NewLayer("state"))
                   /\ pc' = "ready"
              ELSE /\ dashboard' = [dashboard EXCEPT !.success = "false"]
                   /\ leaflet' = leaflet
                   /\ pc' = "noData"
    /\ UNCHANGED <<fetching, lightbox, processor>>

\* switchView up to the layer it makes: the current layer is taken off the
\* map.
Cleared == [layers |-> leaflet.layers \ {dashboard.currentLayer}, created |-> leaflet.created]

\* The change listener of the view selector, to the end or to the await of
\* createMetroLayer.
ChangeView(view) ==
    /\ dashboard.viewSelector
    /\ view # dashboard.currentView
    /\ leaflet.created + fetching <= MaxChanges
    /\ IF view = "metro"
       THEN /\ dashboard' = [dashboard EXCEPT !.currentView = view, !.currentLayer = NoLayer]
            /\ leaflet' = Cleared
            /\ fetching' = IF dashboard.metroData = "empty" THEN fetching ELSE fetching + 1
       ELSE LET layer == [view |-> "state", id |-> leaflet.created + 1]
            IN  /\ dashboard' = [dashboard EXCEPT !.currentView = view, !.currentLayer = layer]
                /\ leaflet' = [layers |-> Cleared.layers \cup {layer}, created |-> layer.id]
                /\ fetching' = fetching
    /\ UNCHANGED <<pc, lightbox, processor>>

\* createMetroLayer after loadMetroCoordinatesFromDB has resolved (it falls
\* back instead of throwing): the markers are made and the layer is set.
CoordinatesLoaded ==
    /\ fetching > 0
    /\ fetching' = fetching - 1
    /\ dashboard' = [dashboard EXCEPT !.currentLayer = NewLayer("metro")]
    /\ leaflet' = AddedToMap(NewLayer("metro"))
    /\ UNCHANGED <<pc, lightbox, processor>>

\* showTrendLightbox for a location the dashboard has data of.
showTrendLightbox ==
    /\ pc = "ready"
    /\ lightbox.timers < MaxShows
    /\ lightbox' = [lightbox EXCEPT !.active = TRUE, !.timers = @ + 1]
    /\ UNCHANGED <<pc, dashboard, leaflet, fetching, processor>>

\* The timer of showTrendLightbox fires: renderLightboxChart.
renderLightboxChart ==
    /\ lightbox.timers > 0
    /\ lightbox' = [lightbox EXCEPT !.timers = @ - 1, !.trendChart = TRUE]
    /\ UNCHANGED <<pc, dashboard, leaflet, fetching, processor>>

\* The close button of the overlay.
closeTrendLightbox ==
    /\ lightbox.active
    /\ lightbox' = [lightbox EXCEPT !.active = FALSE, !.trendChart = FALSE]
    /\ UNCHANGED <<pc, dashboard, leaflet, fetching, processor>>

NextDashboard ==
    \/ init
    \/ \E view \in {"state", "metro"} : ChangeView(view)
    \/ CoordinatesLoaded
    \/ showTrendLightbox
    \/ renderLightboxChart
    \/ closeTrendLightbox

SpecDashboard == InitDashboard /\ [][NextDashboard]_vars


(***************************************************************************)
(* Claims about the returns and beta engine.                               *)
(***************************************************************************)
Windows == {Win1y, Win3y, Win5y}

\* The beta a result holds for a metric and a window.
BetaFor(info, metric, months) ==
    CASE months = Win5y -> info.betas[metric].beta_5y
      [] months = Win3y -> info.betas[metric].beta_3y
      [] OTHER -> info.betas[metric].beta_1y

\* The geographies with a computed result, each with its series.
Computed ==
    {[info |-> processedBetas[state], series |-> stateData[state]] :
        state \in DOMAIN processedBetas}
    \cup {[info |-> processedMetroBetas[metro], series |-> metroData[metro]] :
            metro \in DOMAIN processedMetroBetas}

\* The months (parsed dates) of a series, and the months two series share.
MonthsOf(series) == {DateOf(series[i]) : i \in 1..Len(series)}
CommonCount(local, national) == Cardinality(MonthsOf(local) \cap MonthsOf(national))

\* The dates of the window: the newest months the two series share.
WindowDates(local, national, months) == Slice(getCommonDates(local, national), months)

\* C1: whenever a beta that is not null is produced, a pair of consecutive
\* dates of the window is retained for the local returns if and only if it
\* is retained for the national returns.
C1_ReturnsAligned ==
    \A g \in Computed : \A metric \in Metrics : \A months \in Windows :
        BetaFor(g.info, metric, months) # Null =>
            LET dates == WindowDates(g.series, nationalData, months)
            IN  \A i \in 1..(Len(dates) - 1) :
                    RetainedPair(DataMapOf(g.series), metric, dates, i)
                    <=> RetainedPair(DataMapOf(nationalData), metric, dates, i)

\* C2: the beta of a window is null whenever the series of the geography
\* and the national series share fewer months than the window has.
C2_NullWhenShortHistory ==
    \A g \in Computed : \A metric \in Metrics : \A months \in Windows :
        CommonCount(g.series, nationalData) < months =>
            BetaFor(g.info, metric, months) = Null

\* C2 witness: a state and a metro result whose series share with the
\* national series fewer months than the longest window and at least as
\* many as the shortest, with a null beta for the first and a number for
\* the second.
C2_Witness ==
    /\ Cardinality(Computed) = 2
    /\ \A g \in Computed :
          /\ CommonCount(g.series, nationalData) < Win5y
          /\ CommonCount(g.series, nationalData) >= Win3y
          /\ BetaFor(g.info, "median_listing_price", Win5y) = Null
          /\ IsNum(BetaFor(g.info, "median_listing_price", Win3y))

\* C3: every beta is null or a finite number.
C3_NullOrFinite ==
    \A g \in Computed : \A metric \in Metrics : \A months \in Windows :
        BetaFor(g.info, metric, months) = Null \/ IsNum(BetaFor(g.info, metric, months))

\* The beta field of an output record for a metric and a window.
FormattedBetaFor(record, metric, months) ==
    CASE months = Win5y -> record.beta_5y[metric]
      [] months = Win3y -> record.beta_3y[metric]
      [] OTHER -> record.beta_1y[metric]

\* C4: a beta field of an output record is null whenever the beta computed
\* for it is null, and formatBeta renders it as N/A.
C4_NullBetaStaysNull ==
    /\ \A state \in DOMAIN formattedState : \A metric \in Metrics : \A months \in Windows :
          BetaFor(processedBetas[state], metric, months) = Null =>
              /\ FormattedBetaFor(formattedState[state], metric, months) = Null
              /\ formatBeta(FormattedBetaFor(formattedState[state], metric, months)) = "N/A"
    /\ \A metro \in DOMAIN formattedMetro : \A metric \in Metrics : \A months \in Windows :
          BetaFor(processedMetroBetas[metro], metric, months) = Null =>
              /\ FormattedBetaFor(formattedMetro[metro], metric, months) = Null
              /\ formatBeta(FormattedBetaFor(formattedMetro[metro], metric, months)) = "N/A"

\* Returns that are all the same number.
AllEqual(x) == \A i \in 1..Len(x) : IsNum(x[i]) /\ x[i] = x[1]

\* C5: if the national returns of a window are at least two and all equal,
\* their variance is exactly zero and the beta of every geography over that
\* window is null.
C5_ConstantNationalGivesNull ==
    \A g \in Computed : \A metric \in Metrics : \A months \in Windows :
        LET dates == WindowDates(g.series, nationalData, months)
            nationalReturns == getReturns(nationalData, metric, dates)
        IN  (Len(dates) = months /\ Len(nationalReturns) >= 2 /\ AllEqual(nationalReturns)) =>
                /\ calculateVariance(nationalReturns) = Zero
                /\ BetaFor(g.info, metric, months) = Null

\* A value a row holds for a month: not undefined, not null, not empty.
Present(v) == v.k \notin {"undef", "null"} /\ v # Text("")

\* C6: getReturns emits the return (value[i] - value[i+1]) / value[i+1] of a
\* pair of consecutive dates if and only if both values are present and
\* value[i+1] is not zero; a present current value of zero is retained.
C6_ReturnIffPresent ==
    \A g \in Computed : \A metric \in Metrics : \A months \in Windows :
        LET dates == WindowDates(g.series, nationalData, months)
            dataMap == DataMapOf(g.series)
        IN  \A i \in 1..(Len(dates) - 1) :
                RetainedPair(dataMap, metric, dates, i)
                <=> /\ Present(Lookup(dataMap, dates[i], metric))
                    /\ Present(Lookup(dataMap, dates[i + 1], metric))
                    /\ Lookup(dataMap, dates[i + 1], metric) # Zero

(***************************************************************************)
(* Claims about the load cycle.                                            *)
(***************************************************************************)
\* C7: an invocation of loadData that has returned returned false if one of
\* the three resources was unavailable to it (its request rejected or was
\* answered with a response that is not OK), and true only if all three
\* were read.
C7_FalseWhenUnavailable ==
    \A i \in DOMAIN calls :
        calls[i].pc = "done" =>
            (calls[i].result = "false" <=> calls[i].failed # {})

\* The store one invocation that reads the three files leaves.
SingleNational == SortByDateDesc(parseCSV(files.national))
SingleStates == Grouped(EmptyObject, parseCSV(files.state), <<"state">>)
SingleMetros ==
    Grouped(EmptyObject, parseCSV(files.metro), <<"cbsa_title", "metro_name", "metro">>)

\* The invocations that were called, and whether none of them is suspended.
Started == {i \in DOMAIN calls : calls[i].pc # "idle"}
Quiet == \A i \in Started : calls[i].pc = "done"

\* C8: once the invocations of loadData that were called (one or more,
\* overlapping or one after the other) have all returned, each having read
\* the three files, the store is the store of a single invocation.
C8_StoreOfSingleInvocation ==
    (/\ Started # {}
     /\ Quiet
     /\ \A i \in Started : calls[i].result = "true" /\ calls[i].failed = {})
    => /\ nationalData = SingleNational
       /\ stateData = SingleStates
       /\ metroData = SingleMetros
       /\ processedBetas = StateBetasOf(SingleStates, SingleNational, EmptyObject)
       /\ processedMetroBetas = MetroBetasOf(SingleMetros, SingleNational, EmptyObject)

(***************************************************************************)
(* Claims about the tabular parser.                                        *)
(***************************************************************************)
\* The commas of a line that lie outside double quotes: those with an even
\* number of quotes before them.
QuotesBefore(line, i) == Cardinality({j \in 1..(i - 1) : line[j] = Quote})
UnquotedCommas(line) ==
    {i \in 1..Len(line) : line[i] = Comma /\ QuotesBefore(line, i) % 2 = 0}
FieldCount(line) == 1 + Cardinality(UnquotedCommas(line))

\* The data lines of the text whose field count is the header's.
MatchingLines(lines) ==
    {i \in 2..Len(lines) : FieldCount(lines[i]) = FieldCount(lines[1])}

\* The records of the matching lines from line i on, each the record the
\* parser makes of the line when the text holds no other data line.
RECURSIVE RecordsAlone(_, _, _)
RecordsAlone(lines, headers, i) ==
    IF i > Len(lines) THEN << >>
    ELSE (IF i \in MatchingLines(lines) THEN RowsFrom(<<lines[i]>>, headers, 1) ELSE << >>)
         \o RecordsAlone(lines, headers, i + 1)

\* C9: parseCSV returns exactly one record for each data line whose field
\* count equals the header's field count, in source order, each the record
\* of its line whatever the other lines are.
C9_OneRecordPerMatchingLine ==
    pc = "parsed" =>
        /\ Len(csvRows) = Cardinality(MatchingLines(LinesOf(csvText)))
        /\ csvRows = RecordsAlone(LinesOf(csvText), HeadersOf(csvText), 2)

\* C10: every line, the header line included, is split only at its unquoted
\* commas, so that the header has one plus the number of its unquoted
\* commas names, and the records are those that map the i-th name of the
\* header so split to the i-th field of their line.
C10_SplitAtUnquotedCommas ==
    pc = "parsed" =>
        LET lines == LinesOf(csvText)
        IN  /\ Len(HeadersOf(csvText)) = FieldCount(lines[1])
            /\ \A i \in 2..Len(lines) : Len(parseCSVLine(lines[i])) = FieldCount(lines[i])
            /\ csvRows = RowsFrom(lines, parseCSVLine(lines[1]), 2)

\* C11: a call of parseCSV ends in a failure if and only if its text is
\* empty (there is no header line); on every other text it returns rows.
C11_FailsOnEmptyText ==
    pc \in {"parsed", "failed"} => (pc = "failed" <=> csvText = << >>)

(***************************************************************************)
(* Claims about the store after ingestion.                                 *)
(***************************************************************************)
\* C12: no step of the engine after ingestion (calculateBetas,
\* calculateMetroBetas, getFormattedStateData and getFormattedMetroData with
\* their calls of calculateChanges) changes the contents or the order of
\* nationalData or of a series of stateData or metroData.
C12_StoreImmutableAfterIngestion ==
    [][UNCHANGED <<nationalData, stateData, metroData>>]_vars

\* C12 witness: the two formatting calls have run, calculateChanges having
\* sorted a copy of a state series and of a metro series of several rows.
C12_Witness ==
    /\ pc = "done"
    /\ \E state \in DOMAIN formattedState : Len(stateData[state]) >= 2
    /\ \E metro \in DOMAIN formattedMetro : Len(metroData[metro]) >= 2

\* A series whose dates never increase from one row to the next.
SortedDesc(series) ==
    \A i \in 1..(Len(series) - 1) : DateOf(series[i]) >= DateOf(series[i + 1])

\* A row whose date is the maximum of the dates of the series.
CarriesMaxDate(row, series) ==
    \A i \in 1..Len(series) : DateOf(row) >= DateOf(series[i])

\* C13: the national series and every state and metro series are ordered
\* by date descending, and the latest_data of a geography carries the
\* maximum date of the series of that geography.
C13_SortedNewestFirst ==
    /\ SortedDesc(nationalData)
    /\ \A state \in DOMAIN stateData : SortedDesc(stateData[state])
    /\ \A metro \in DOMAIN metroData : SortedDesc(metroData[metro])
    /\ \A state \in DOMAIN processedBetas \cap DOMAIN stateData :
          CarriesMaxDate(processedBetas[state].latest_data, stateData[state])
    /\ \A metro \in DOMAIN processedMetroBetas \cap DOMAIN metroData :
          CarriesMaxDate(processedMetroBetas[metro].latest_data, metroData[metro])

\* C13 witness: an invocation that read the three files has returned, the
\* state file holding the months of Ohio oldest first; the series of Ohio is
\* newest first and its latest_data is the row of the newest month.
C13_Witness ==
    /\ \E i \in DOMAIN calls : calls[i].result = "true" /\ calls[i].failed = {}
    /\ files.state = FileText("state", << <<"Ohio", Comma, "1", Comma, "5">>,
                                          <<"Ohio", Comma, "2", Comma, "5">> >>)
    /\ "Ohio" \in DOMAIN processedBetas
    /\ DateOf(stateData["Ohio"][1]) > DateOf(stateData["Ohio"][Len(stateData["Ohio"])])
    /\ DateOf(processedBetas["Ohio"].latest_data) = 2
    /\ DateOf(nationalData[1]) > DateOf(nationalData[Len(nationalData)])

\* A series no two rows of which have the same date.
UniqueDates(series) ==
    \A i \in 1..Len(series) : \A j \in 1..Len(series) :
        i # j => DateOf(series[i]) # DateOf(series[j])

\* C14: in the store one load cycle builds from the three files, whatever
\* the state file repeats, no series holds two rows of the same date.
C14_UniqueDatesInSeries ==
    (\A i \in DOMAIN calls : calls[i].failed = {}) =>
        /\ UniqueDates(nationalData)
        /\ \A state \in DOMAIN stateData : UniqueDates(stateData[state])
        /\ \A metro \in DOMAIN metroData : UniqueDates(metroData[metro])

(***************************************************************************)
(* Claims about the change calculator.                                     *)
(***************************************************************************)
\* The value of the k-th newest month of the series (k = 0 the newest), the
\* months of the series being 1..Len(series).
ValueBack(series, k) ==
    LET row == CHOOSE r \in {series[i] : i \in 1..Len(series)} :
                   DateOf(r) = Len(series) - k
    IN  Get(row, "median_listing_price")

\* A series all of whose values are numbers other than zero.
AllRegular(series) ==
    \A i \in 1..Len(series) : Get(series[i], "median_listing_price") \in Regular

\* What the division of the current value by an earlier one, less one, is.
ChangeOver(current, earlier) == FSub(FDiv(current, earlier), One)

\* C15: for a series of at least YearLag + 1 observations of present,
\* nonzero values in any order, calculateChanges returns
\* mom = v[0]/v[1] - 1 and yoy = v[0]/v[YearLag] - 1, v being the values
\* newest first.
C15_ChangesOfSortedSeries ==
    (pc = "changed" /\ Len(timeSeries) >= YearLag + 1 /\ AllRegular(timeSeries)) =>
        /\ changes.mom = ChangeOver(ValueBack(timeSeries, 0), ValueBack(timeSeries, 1))
        /\ changes.yoy = ChangeOver(ValueBack(timeSeries, 0), ValueBack(timeSeries, YearLag))

\* C15 witness: calculateChanges has returned changes other than zero for
\* a series of YearLag + 1 regular observations given oldest first.
C15_Witness ==
    /\ pc = "changed"
    /\ Len(timeSeries) >= YearLag + 1
    /\ AllRegular(timeSeries)
    /\ DateOf(timeSeries[1]) = 1
    /\ DateOf(timeSeries[2]) = 2
    /\ changes.mom # Zero
    /\ changes.yoy # Zero

\* The change the claim gives for a current and an earlier value: zero
\* when one of them is missing or the earlier one is zero, else the
\* division.
ChangeOrZero(current, earlier) ==
    IF Present(current) /\ Present(earlier) /\ earlier # Zero
    THEN ChangeOver(current, earlier)
    ELSE Zero

\* C17: calculateChanges yields 0 for mom (for yoy) exactly when the
\* earlier value is missing or zero or the current value is missing, and
\* the division otherwise: -1 for a current value of zero.
C17_DivisionSkippedIffMissing ==
    (pc = "changed" /\ Len(timeSeries) >= 2) =>
        /\ changes.mom = ChangeOrZero(ValueBack(timeSeries, 0), ValueBack(timeSeries, 1))
        /\ Len(timeSeries) >= YearLag + 1 =>
              changes.yoy = ChangeOrZero(ValueBack(timeSeries, 0),
                                         ValueBack(timeSeries, YearLag))

(***************************************************************************)
(* Claims about the changes of the output records.                         *)
(***************************************************************************)
\* The output records with the result and the series they were made from.
Delivered ==
    {[record |-> formattedState[state], latest |-> processedBetas[state].latest_data,
      series |-> stateData[state]] : state \in DOMAIN formattedState}
    \cup {[record |-> formattedMetro[metro], latest |-> processedMetroBetas[metro].latest_data,
            series |-> metroData[metro]] : metro \in DOMAIN formattedMetro}

\* C16: the *_mm (the *_yy) field of an output record is the precomputed
\* value of the most recent observation if it carries one, a value of zero
\* included, and else the mom (the yoy) calculateChanges computes for the
\* metric.
C16_PrecomputedTakesPrecedence ==
    \A g \in Delivered : \A metric \in Metrics :
        /\ g.record.mm[metric] =
              IF Present(Get(g.latest, MM(metric))) THEN Get(g.latest, MM(metric))
              ELSE calculateChanges(g.series, metric).mom
        /\ g.record.yy[metric] =
              IF Present(Get(g.latest, YY(metric))) THEN Get(g.latest, YY(metric))
              ELSE calculateChanges(g.series, metric).yoy

\* C18: for a geography whose series has fewer than YearLag + 1
\* observations and no precomputed yy field, the year-over-year change of
\* the output record is null or absent, not a number.
C18_NoYearOverYearWhenShort ==
    \A g \in Delivered : \A metric \in Metrics :
        (Len(g.series) < YearLag + 1 /\ ~Present(Get(g.latest, YY(metric)))) =>
            g.record.yy[metric] \in {Null, Undefined}


\* C19: a source label that is a key of hardcodedMappings is mapped to what
\* the table has for it, whatever the candidates are, and it is not scored.
C19_OverrideShortCircuits ==
    pc = "mapped" =>
        \A i \in DOMAIN csvNames :
            csvNames[i] \in DOMAIN hardcodedMappings =>
                /\ csvNames[i] \in DOMAIN mapping
                /\ mapping[csvNames[i]] = Text(hardcodedMappings[csvNames[i]])
                /\ csvNames[i] \notin DOMAIN matches

\* C19 witness: a label of the table was mapped while a candidate other than
\* the table's would have cleared the threshold for it.
C19_Witness ==
    /\ pc = "mapped"
    /\ \E i \in DOMAIN csvNames : \E j \in DOMAIN cbsaNames :
          /\ csvNames[i] \in DOMAIN hardcodedMappings
          /\ cbsaNames[j] # hardcodedMappings[csvNames[i]]
          /\ ~Skipped(csvNames[i], cbsaNames[j])
          /\ Score(csvNames[i], cbsaNames[j]) >= 75

\* A candidate with the normalized form of the label.
SameNormalized(csvName) ==
    {j \in DOMAIN cbsaNames : normalize(cbsaNames[j]) = normalize(csvName)}

\* C20: a source label that is no key of hardcodedMappings and whose
\* normalized form is that of some candidate is mapped, with the score 100,
\* to a candidate of that normalized form.
C20_ExactNormalizedMatchMaps ==
    pc = "mapped" =>
        \A i \in DOMAIN csvNames :
            (csvNames[i] \notin DOMAIN hardcodedMappings /\ SameNormalized(csvNames[i]) # {}) =>
                /\ csvNames[i] \in DOMAIN mapping
                /\ \E j \in SameNormalized(csvNames[i]) :
                      mapping[csvNames[i]] = Text(cbsaNames[j])
                /\ csvNames[i] \in DOMAIN matches
                /\ matches[csvNames[i]].bestScore = 100

\* One token contains the other and the shorter has at least 80% of the
\* length of the longer.
StrictOverlap(city, cbsaCity) ==
    LET shorter == IF Len(city) < Len(cbsaCity) THEN Len(city) ELSE Len(cbsaCity)
        longer == IF Len(city) < Len(cbsaCity) THEN Len(cbsaCity) ELSE Len(city)
    IN  /\ includes(city, cbsaCity) \/ includes(cbsaCity, city)
        /\ shorter * 10 >= longer * 8

\* How many tokens of the source label overlap strictly with a token of the
\* candidate.
StrictCount(csvName, cbsaName) ==
    LET csvCities == extractCityNames(csvName)
        cbsaCities == extractCityNames(cbsaName)
    IN  Cardinality({i \in DOMAIN csvCities :
            \E j \in DOMAIN cbsaCities : StrictOverlap(csvCities[i], cbsaCities[j])})

\* A best match that is neither exact nor a containment: its score is that
\* of the token tier.
ByTokens(csvName) ==
    /\ csvName \in DOMAIN matches
    /\ Truthy(matches[csvName].bestMatch)
    /\ normalize(matches[csvName].bestMatch.s) # normalize(csvName)
    /\ ~includes(normalize(matches[csvName].bestMatch.s), normalize(csvName))

\* C21: a token of the source label counts as matching a token of the
\* candidate only if one contains the other and the shorter has at least 80%
\* of the length of the longer: a score of the token tier never counts more
\* tokens than overlap strictly.
C21_TokenMatchNeedsStrictOverlap ==
    pc = "mapped" =>
        \A i \in DOMAIN csvNames :
            ByTokens(csvNames[i]) =>
                50 + 15 * StrictCount(csvNames[i], matches[csvNames[i]].bestMatch.s)
                    >= matches[csvNames[i]].bestScore

\* C22: a score of the token tier is strictly lower than the score of a
\* containment (80), hence than that of an exact match (100), however many
\* tokens match.
C22_TokenTierBelowContainment ==
    pc = "mapped" =>
        \A i \in DOMAIN csvNames :
            ByTokens(csvNames[i]) => matches[csvNames[i]].bestScore < 80

\* The candidates the inner loop scores for a label: their positions.
Candidates(csvName) ==
    {j \in DOMAIN cbsaNames : cbsaNames[j] \notin SkippedOf[csvName]}

\* The first of the candidates of the highest score.
FirstBest(csvName, j) ==
    /\ j \in Candidates(csvName)
    /\ \A h \in Candidates(csvName) :
          /\ ScoreOf[csvName][cbsaNames[h]] <= ScoreOf[csvName][cbsaNames[j]]
          /\ h < j => ScoreOf[csvName][cbsaNames[h]] < ScoreOf[csvName][cbsaNames[j]]

NewMexico == {j \in DOMAIN cbsaNames : includes(cbsaNames[j], "Las Vegas, NM")}
Nevada == {j \in DOMAIN cbsaNames : includes(cbsaNames[j], "Las Vegas, NV")}

\* The source labels that contain "las vegas".
NamesLasVegas == {i \in DOMAIN csvNames : includes(toLowerCase(csvNames[i]), "las vegas")}

\* C24: with both entities among the candidates, a source label that contains
\* "las vegas" is never mapped to a label that contains "Las Vegas, NM".
C24_LasVegasNeverNewMexico ==
    (pc = "mapped" /\ NewMexico # {} /\ Nevada # {}) =>
        \A i \in NamesLasVegas :
            csvNames[i] \in DOMAIN mapping =>
                /\ mapping[csvNames[i]].k = "text"
                /\ ~includes(mapping[csvNames[i]].s, "Las Vegas, NM")

\* C24 witness: "las vegas" was mapped to Nevada's label although New
\* Mexico's came first among the candidates with the same score.
C24_Witness ==
    /\ pc = "mapped"
    /\ \E i \in NamesLasVegas : \E j \in NewMexico : \E h \in Nevada :
          /\ j < h
          /\ ScoreOf[csvNames[i]][cbsaNames[j]] >= ScoreOf[csvNames[i]][cbsaNames[h]]
          /\ ScoreOf[csvNames[i]][cbsaNames[j]] >= 75
          /\ csvNames[i] \in DOMAIN mapping
          /\ mapping[csvNames[i]] = Text(cbsaNames[h])

\* The members of an array.
Members(array) == {array[i] : i \in DOMAIN array}

\* C25: a metro is drawn only if its label has an entry in the mapping; a
\* label without an entry is not drawn and is in missingCoordinates.
C25_UnmappedNotDrawnAndReported ==
    pc = "rendered" =>
        \A i \in DOMAIN csvNames :
            csvNames[i] \notin DOMAIN mapping =>
                /\ csvNames[i] \notin Members(markers)
                /\ csvNames[i] \in Members(missingCoordinates)

\* C29: every key of the returned mapping is one of csvNames and every value
\* of it is one of cbsaNames.
C29_MappingWithinArguments ==
    pc \in {"mapped", "rendered"} =>
        \A csvName \in DOMAIN mapping :
            /\ csvName \in Members(csvNames)
            /\ mapping[csvName].k = "text"
            /\ mapping[csvName].s \in Members(cbsaNames)

\* The positive constants a series is multiplied by.
Scales == {FromInt(3), FromInt(27)}

\* The row with every metric value that is a number multiplied by k.
ScaledRow(row, k) ==
    [field \in DOMAIN row |->
        IF field \in Metrics /\ IsNum(row[field]) THEN FMul(row[field], k) ELSE row[field]]

ScaledSeries(series, k) == [i \in DOMAIN series |-> ScaledRow(series[i], k)]

\* C26: calculateBeta gives the same result when every metric value of the
\* local and of the national series is multiplied by the same positive
\* constant.
C26_BetaScaleInvariant ==
    \A state \in DOMAIN processedBetas : \A metric \in Metrics : \A months \in Windows :
        \A k \in Scales :
            calculateBeta(ScaledSeries(stateData[state], k), ScaledSeries(nationalData, k),
                          metric, months,
                          getCommonDates(ScaledSeries(stateData[state], k),
                                         ScaledSeries(nationalData, k)))
                = BetaFor(processedBetas[state], metric, months)

\* C27: at most one data layer is on the map and it is currentLayer; once
\* no createMetroLayer call awaits its coordinates, currentLayer is a layer
\* of the current view.
C27_OneLayerOfCurrentView ==
    /\ leaflet.layers \subseteq {dashboard.currentLayer}
    /\ (fetching = 0 /\ dashboard.currentLayer # NoLayer) =>
           dashboard.currentLayer.view = dashboard.currentView

\* C28: while the lightbox is closed window.trendChart is null.
C28_NoChartWhileClosed ==
    ~lightbox.active => ~lightbox.trendChart

\* A data layer was made.
LayerMade == leaflet.created > 0

\* C30: the dashboard's stateData is the processor's if and only if loadData
\* resolved true, and the test data's if it resolved false and the test data
\* is defined; isDataLoaded is true in exactly these two cases; a layer is
\* made only once isDataLoaded is true.
C30_DataSourceFollowsLoadData ==
    /\ dashboard.stateData = "formatted" <=> dashboard.success = "true"
    /\ (dashboard.success = "false" /\ testData) => dashboard.stateData = "mock"
    /\ dashboard.isDataLoaded <=>
          (dashboard.success = "true" \/ (dashboard.success = "false" /\ testData))
    /\ LayerMade => dashboard.isDataLoaded
    /\ (dashboard.success = "false" /\ ~testData) => ~LayerMade

\* C30 witness: loadData resolved false, the test data is shown and the
\* state layer is on the map.
C30_Witness ==
    /\ dashboard.success = "false"
    /\ testData
    /\ dashboard.stateData = "mock"
    /\ dashboard.isDataLoaded
    /\ dashboard.currentLayer.view = "state"
    /\ dashboard.currentLayer \in leaflet.layers
====
